---- MODULE Spec2Model ----
(***************************************************************************)
(* undercat: the "Reader" functor (src/undercat/__init__.py).              *)
(*                                                                         *)
(* A Reader wraps a function func : S -> A.  The module models             *)
(*   - the objects the library allocates (heap of Readers, each holding    *)
(*     its func: a named function or the closure a combinator creates),    *)
(*   - the library calls that build Readers (Reader(f), const, mktuple,    *)
(*     map, map_binary, the binary operator methods, reduce, all, any,     *)
(*     sum, prod, min, max),                                               *)
(*   - the invocation of a Reader as a call stack that steps through the   *)
(*     closures, logging every Reader call, return and operator call,      *)
(*   - the native expressions ==, !=, bool(), not, and, or on Readers.     *)
(*                                                                         *)
(* A behaviour is a run of test cases shaped like src/tests.py: on top of  *)
(* the Readers that exist once the test module is imported, a case makes   *)
(* one library call, invokes Readers and evaluates native expressions,     *)
(* and is then torn down.                                                  *)
(*                                                                         *)
(* Python values are records tagged with their type; the values that reach *)
(* an operator here are None, bool and int (floats and tuples only come    *)
(* out as final results), and all ints that reach the bitwise operators    *)
(* are non-negative.                                                       *)
(***************************************************************************)
EXTENDS Integers, Sequences, FiniteSets

VARIABLES heap, call, pc, stack, trace, result, native

vars == <<heap, call, pc, stack, trace, result, native>>

(***************************************************************************)
(* Bounds                                                                  *)
(***************************************************************************)
\* longest sequence of Readers handed to mktuple / a reduction
MaxLen == 2

(***************************************************************************)
(* Python values                                                           *)
(***************************************************************************)
PyNone == [t |-> "NoneType"]
PyBool(b) == [t |-> "bool", n |-> IF b THEN 1 ELSE 0]
PyTrue == PyBool(TRUE)
PyFalse == PyBool(FALSE)
PyInt(i) == [t |-> "int", n |-> i]
PyTuple(items) == [t |-> "tuple", items |-> items]

Abs(i) == IF i < 0 THEN -i ELSE i

RECURSIVE Gcd(_, _)
Gcd(a, b) == IF b = 0 THEN a ELSE Gcd(b, a % b)

\* a float, kept as the reduced fraction n/d with d > 0
PyFloat(num, den) ==
    LET g == Gcd(Abs(num), Abs(den))
        s == IF den < 0 THEN -1 ELSE 1
    IN [t |-> "float", n |-> (s * num) \div g, d |-> (s * den) \div g]

\* raised exceptions travel through the model as values of their own type
TypeErrorUnsupported == [t |-> "TypeError", msg |-> "unsupported operand type"]
TypeErrorNoInitial ==
    [t |-> "TypeError", msg |-> "reduce() of empty iterable with no initial value"]
ZeroDivision == [t |-> "ZeroDivisionError", msg |-> "division by zero"]

IsExc(v) == v.t \in {"TypeError", "ZeroDivisionError"}
IsNone(v) == v.t = "NoneType"
\* bool is a subclass of int
IsInt(v) == v.t \in {"bool", "int"}
BothBool(a, b) == a.t = "bool" /\ b.t = "bool"

\* bool(v)
Truthy(v) ==
    CASE v.t = "NoneType" -> FALSE
      [] v.t \in {"bool", "int", "float"} -> v.n # 0
      [] v.t = "tuple" -> Len(v.items) > 0
      [] OTHER -> TRUE

\* the == of two produced values
PyEq(a, b) ==
    CASE IsInt(a) /\ IsInt(b) -> a.n = b.n
      [] IsInt(a) /\ b.t = "float" -> b.d = 1 /\ a.n = b.n
      [] a.t = "float" /\ IsInt(b) -> a.d = 1 /\ a.n = b.n
      [] OTHER -> a = b

RECURSIVE Bitwise(_, _, _)
\* bitwise combination of two non-negative ints, bit by bit
Bitwise(f, a, b) ==
    IF a = 0 /\ b = 0 THEN 0
    ELSE (IF f[a % 2, b % 2] THEN 1 ELSE 0) + 2 * Bitwise(f, a \div 2, b \div 2)

BitAnd == [x \in 0..1, y \in 0..1 |-> x = 1 /\ y = 1]
BitOr == [x \in 0..1, y \in 0..1 |-> x = 1 \/ y = 1]
BitXor == [x \in 0..1, y \in 0..1 |-> x # y]

\* a & b, a | b, a ^ b: bool when both operands are bool, int otherwise
PyBitwise(f, a, b) ==
    IF ~(IsInt(a) /\ IsInt(b)) THEN TypeErrorUnsupported
    ELSE IF BothBool(a, b) THEN PyBool(Bitwise(f, a.n, b.n) = 1)
    ELSE PyInt(Bitwise(f, a.n, b.n))

\* floor(a / b) for b # 0
FloorDiv(a, b) == IF b > 0 THEN a \div b ELSE (-a) \div (-b)

RECURSIVE IntPow(_, _)
\* a to the power b for b >= 0; 0 ** 0 is 1
IntPow(a, b) == IF b = 0 THEN 1 ELSE a * IntPow(a, b - 1)

\* a ** b on ints
PyPow(a, b) ==
    IF b >= 0 THEN PyInt(IntPow(a, b))
    ELSE IF a = 0 THEN ZeroDivision
    ELSE PyFloat(1, IntPow(a, -b))

\* the functions of the operator module, and the two-argument builtins
\* min and max, applied to two produced values
Apply(operator, a, b) ==
    IF operator = "eq" THEN PyBool(PyEq(a, b))
    ELSE IF ~(IsInt(a) /\ IsInt(b)) THEN TypeErrorUnsupported
    ELSE CASE operator = "add" -> PyInt(a.n + b.n)
           [] operator = "sub" -> PyInt(a.n - b.n)
           [] operator = "mul" -> PyInt(a.n * b.n)
           [] operator = "truediv" ->
                IF b.n = 0 THEN ZeroDivision ELSE PyFloat(a.n, b.n)
           [] operator = "mod" ->
                IF b.n = 0 THEN ZeroDivision
                ELSE PyInt(a.n - b.n * FloorDiv(a.n, b.n))
           [] operator = "floordiv" ->
                IF b.n = 0 THEN ZeroDivision ELSE PyInt(FloorDiv(a.n, b.n))
           [] operator = "pow" -> PyPow(a.n, b.n)
           [] operator = "matmul" -> TypeErrorUnsupported
           [] operator = "and_" -> PyBitwise(BitAnd, a, b)
           [] operator = "or_" -> PyBitwise(BitOr, a, b)
           [] operator = "xor" -> PyBitwise(BitXor, a, b)
           [] operator = "lt" -> PyBool(a.n < b.n)
           [] operator = "le" -> PyBool(a.n <= b.n)
           [] operator = "ge" -> PyBool(a.n >= b.n)
           [] operator = "gt" -> PyBool(a.n > b.n)
           [] operator = "min" -> IF b.n < a.n THEN b ELSE a
           [] operator = "max" -> IF b.n > a.n THEN b ELSE a

\* the named functions the tests wrap: square, add_one, lambda val: val, ops.not_
UserFuncs == {"square", "add_one", "identity", "not_"}

CallDef(name, x) ==
    CASE name = "square" -> Apply("pow", x, PyInt(2))
      [] name = "add_one" -> Apply("add", x, PyInt(1))
      [] name = "identity" -> x
      [] name = "not_" -> PyBool(~Truthy(x))

(***************************************************************************)
(* Objects: functions and Readers                                          *)
(***************************************************************************)
\* a reference to the Reader in heap slot k, as a Python value
PyReader(k) == [t |-> "Reader", id |-> k]

\* an argument the caller did not pass
Omitted == [t |-> "<omitted>"]
\* a parameter declared as "name: Optional[A] = None"
Bind(arg, default) == IF arg = Omitted THEN default ELSE arg

\* a function defined with def: one object per name
Def(name) == [kind |-> "def", name |-> name]

\* Reader(func): the dataclass constructor stores func in a new object
Reader(h, func) == Append(h, [func |-> func])

\* every lambda expression evaluated makes a new function object; serial
\* tells the objects apart
Reader_const(h, val) ==
    Reader(h, [kind |-> "const.<lambda>", serial |-> Len(h) + 1, val |-> val])

Reader_mktuple(h, readers) ==
    Reader(h, [kind |-> "mktuple.<lambda>", serial |-> Len(h) + 1,
               readers |-> readers])

Reader_map(h, self, func) ==
    Reader(h, [kind |-> "map.<lambda>", serial |-> Len(h) + 1,
               self |-> self, func |-> func])

Reader_map_binary(h, self, operator, other) ==
    Reader(h, [kind |-> "map_binary.<lambda>", serial |-> Len(h) + 1,
               operator |-> operator, self |-> self, other |-> other])

\* the binary operator methods of Reader and the operator each one lifts
BinaryMethods ==
    {"__add__", "__sub__", "__mul__", "__truediv__", "__mod__",
     "__floordiv__", "__pow__", "__matmul__", "__and__", "__or__", "__xor__",
     "__lt__", "__le__", "__ge__", "__gt__"}

MethodOperator(m) ==
    CASE m = "__add__" -> "add"
      [] m = "__sub__" -> "sub"
      [] m = "__mul__" -> "mul"
      [] m = "__truediv__" -> "truediv"
      [] m = "__mod__" -> "mod"
      [] m = "__floordiv__" -> "floordiv"
      [] m = "__pow__" -> "pow"
      [] m = "__matmul__" -> "matmul"
      [] m = "__and__" -> "and_"
      [] m = "__or__" -> "or_"
      [] m = "__xor__" -> "xor"
      [] m = "__lt__" -> "lt"
      [] m = "__le__" -> "le"
      [] m = "__ge__" -> "ge"
      [] m = "__gt__" -> "gt"

Reader_binary_method(h, m, self, other) ==
    Reader_map_binary(h, self, MethodOperator(m), other)

(***************************************************************************)
(* Reductions                                                              *)
(***************************************************************************)
\* reduce as it would be if it never passed initial on to the fold
reduce_drops_initial(h, readers, operator, arg) ==
    LET func == [kind |-> "partial", func |-> "functools.reduce",
                 operator |-> operator]
        h1 == Reader_mktuple(h, readers)
    IN Reader_map(h1, Len(h1), func)

\* reduce as it would be if it tested "not initial" instead of
\* "initial is None"
reduce_truthy_initial(h, readers, operator, arg) ==
    LET initial == Bind(arg, PyNone)
        func == IF ~Truthy(initial)
                THEN [kind |-> "partial", func |-> "functools.reduce",
                      operator |-> operator]
                ELSE [kind |-> "reduce.<lambda>", serial |-> Len(h) + 1,
                      operator |-> operator, initial |-> initial]
        h1 == Reader_mktuple(h, readers)
    IN Reader_map(h1, Len(h1), func)

\* reduce(readers, operator, initial=None) = mktuple(*readers).map(func)
reduce(h, readers, operator, arg) ==
    LET initial == Bind(arg, PyNone)
        func == IF IsNone(initial)
                THEN [kind |-> "partial", func |-> "functools.reduce",
                      operator |-> operator]
                ELSE [kind |-> "reduce.<lambda>", serial |-> Len(h) + 1,
                      operator |-> operator, initial |-> initial]
        h1 == Reader_mktuple(h, readers)
    IN Reader_map(h1, Len(h1), func)

all(h, readers) == reduce(h, readers, "and_", PyTrue)
any(h, readers) == reduce(h, readers, "or_", PyFalse)

\* sum as it would be if start defaulted to 0, as the builtin's does
sum_start_zero(h, readers, arg) == reduce(h, readers, "add", Bind(arg, PyInt(0)))

sum(h, readers, arg) == reduce(h, readers, "add", Bind(arg, PyNone))
prod(h, readers, arg) == reduce(h, readers, "mul", Bind(arg, PyNone))
min(h, readers, arg) == reduce(h, readers, "min", Bind(arg, PyNone))
max(h, readers, arg) == reduce(h, readers, "max", Bind(arg, PyNone))

(***************************************************************************)
(* Calling functions                                                       *)
(***************************************************************************)
OpEvent(operator, a, b, r) ==
    [ev |-> "op", operator |-> operator, args |-> <<a, b>>, val |-> r]

RECURSIVE Fold(_, _, _, _)
\* the loop of functools.reduce: value = function(value, element), stopping
\* at the first exception; ops logs the calls of function
Fold(function, value, rest, ops) ==
    IF rest = <<>> THEN [val |-> value, ops |-> ops]
    ELSE LET r == Apply(function, value, Head(rest))
             logged == Append(ops, OpEvent(function, value, Head(rest), r))
         IN IF IsExc(r) THEN [val |-> r, ops |-> logged]
            ELSE Fold(function, r, Tail(rest), logged)

\* functools.reduce(function, iterable[, initial])
functools_reduce(function, iterable, initial) ==
    IF initial # Omitted THEN Fold(function, initial, iterable, <<>>)
    ELSE IF iterable = <<>> THEN [val |-> TypeErrorNoInitial, ops |-> <<>>]
    ELSE Fold(function, Head(iterable), Tail(iterable), <<>>)

\* func(x) for the function objects map() is given
CallFunc(func, x) ==
    CASE func.kind = "def" -> [val |-> CallDef(func.name, x), ops |-> <<>>]
      [] func.kind = "partial" ->
            functools_reduce(func.operator, x.items, Omitted)
      [] func.kind = "reduce.<lambda>" ->
            functools_reduce(func.operator, x.items, func.initial)

(***************************************************************************)
(* Invoking a Reader: the closures, one stack frame per Reader call        *)
(***************************************************************************)
\* the frame of reader(val); vals collects what the Readers it called returned
Frame(reader, val) == [reader |-> reader, val |-> val, vals |-> <<>>]

CallEvent(reader, val) == [ev |-> "call", reader |-> reader, val |-> val]
ReturnEvent(reader, val) == [ev |-> "return", reader |-> reader, val |-> val]
RaiseEvent(reader, exc) == [ev |-> "raise", reader |-> reader, val |-> exc]

\* the generator as it would be if it walked the Readers last to first
mktuple_next_reversed(readers, vals) ==
    IF Len(vals) < Len(readers) THEN readers[Len(readers) - Len(vals)] ELSE 0

\* the generator as it would be if it stopped at the first falsy value
mktuple_next_lazy(readers, vals) ==
    IF Len(vals) > 0 /\ ~Truthy(vals[Len(vals)]) THEN 0
    ELSE IF Len(vals) < Len(readers) THEN readers[Len(vals) + 1] ELSE 0

\* tuple(reader(val) for reader in readers): the Reader the generator calls
\* next, 0 when it is exhausted
mktuple_next(readers, vals) ==
    IF Len(vals) < Len(readers) THEN readers[Len(vals) + 1] ELSE 0

\* operator(self(val), other(val)): self is called first, then other
map_binary_next(self, other, vals) ==
    CASE Len(vals) = 0 -> self
      [] Len(vals) = 1 -> other
      [] OTHER -> 0

\* the lambda as it would be if it handed the operands over swapped
map_binary_lambda_swapped(operator, vals) ==
    LET r == Apply(operator, vals[2], vals[1])
    IN [val |-> r, ops |-> <<OpEvent(operator, vals[2], vals[1], r)>>]

\* operator(self(val), other(val)), once both values are there
map_binary_lambda(operator, vals) ==
    LET r == Apply(operator, vals[1], vals[2])
    IN [val |-> r, ops |-> <<OpEvent(operator, vals[1], vals[2], r)>>]

\* the Reader that the body of func calls next in this frame, 0 if none
NextCallee(func, fr) ==
    CASE func.kind = "mktuple.<lambda>" -> mktuple_next(func.readers, fr.vals)
      [] func.kind = "map.<lambda>" -> IF fr.vals = <<>> THEN func.self ELSE 0
      [] func.kind = "map_binary.<lambda>" ->
            map_binary_next(func.self, func.other, fr.vals)
      [] OTHER -> 0

\* what the body of func returns or raises once its Reader calls are done
Body(func, fr) ==
    CASE func.kind = "def" -> [val |-> CallDef(func.name, fr.val), ops |-> <<>>]
      [] func.kind = "const.<lambda>" -> [val |-> func.val, ops |-> <<>>]
      [] func.kind = "mktuple.<lambda>" -> [val |-> PyTuple(fr.vals), ops |-> <<>>]
      [] func.kind = "map.<lambda>" -> CallFunc(func.func, fr.vals[1])
      [] func.kind = "map_binary.<lambda>" ->
            map_binary_lambda(func.operator, fr.vals)

(***************************************************************************)
(* Native expressions on Reader objects                                    *)
(***************************************************************************)
\* a == b: the __eq__ dataclass generates compares the func fields, and two
\* function objects are equal when they are the same object
Reader_eq(h, a, b) == h[a].func = h[b].func

\* a != b: object.__ne__ inverts __eq__
Reader_ne(h, a, b) == ~Reader_eq(h, a, b)

\* bool(a) as it would be if Reader had a __bool__ that looked at what the
\* wrapped function gives for None
Reader_bool_wrapped(h, a) ==
    LET func == h[a].func
        v == CASE func.kind = "def" -> CallDef(func.name, PyNone)
               [] func.kind = "const.<lambda>" -> func.val
               [] OTHER -> PyTrue
    IN [val |-> Truthy(v), calls |-> <<a>>]

\* bool(a): class Reader defines neither __bool__ nor __len__, so the
\* coercion is object's, which is true and runs no code of the Reader;
\* calls lists the Reader invocations the coercion made
Reader_bool(h, a) == [val |-> TRUE, calls |-> <<>>]

(***************************************************************************)
(* State                                                                   *)
(***************************************************************************)
\* the Readers src/tests.py builds when it is imported: r_square, r_add_one,
\* r_id, r_not and, out of its parameter list, uc.const(2)
Fixtures ==
    Reader_const(
        <<[func |-> Def("square")], [func |-> Def("add_one")],
          [func |-> Def("identity")], [func |-> Def("not_")]>>,
        PyInt(2))

\* environments the Readers are invoked with
Envs == {PyNone, PyFalse, PyTrue, PyInt(3)}

\* values handed to const
ConstVals == {PyNone, PyFalse, PyTrue, PyInt(2), PyInt(3)}

\* the initial / start / default argument of the reductions
InitialArgs == {Omitted, PyNone, PyFalse, PyInt(0), PyInt(3)}

\* operators handed to map_binary
Operators ==
    {"add", "sub", "mul", "truediv", "mod", "floordiv", "pow", "matmul",
     "and_", "or_", "xor", "lt", "le", "ge", "gt", "eq", "min", "max"}

\* operators handed to reduce
ReduceOperators == {"add", "sub", "mul", "and_", "or_", "min", "max"}

\* the sequences of at most n Readers out of S
SeqsUpTo(S, n) == UNION {[1..k -> S] : k \in 0..n}

NoValue == [t |-> "<none>"]

NoCall == [fn |-> "none", readers |-> <<>>, operator |-> "", arg |-> Omitted,
           ret |-> NoValue]

LibCall(fn, readers, operator, arg, h) ==
    [fn |-> fn, readers |-> readers, operator |-> operator, arg |-> arg,
     ret |-> PyReader(Len(h))]

NoNative == [expr |-> "none", a |-> 0, b |-> 0, val |-> NoValue, calls |-> <<>>]

\* the Readers a test case holds a reference to
Roots ==
    (1..Len(Fixtures)) \cup (IF call.ret.t = "Reader" THEN {call.ret.id} ELSE {})

Init ==
    /\ heap = Fixtures
    /\ call = NoCall
    /\ pc = "idle"
    /\ stack = <<>>
    /\ trace = <<>>
    /\ result = NoValue
    /\ native = NoNative

(***************************************************************************)
(* Library calls: each test case makes one, on top of the fixtures         *)
(***************************************************************************)
CanBuild == pc = "idle" /\ call = NoCall

Built(h, c) ==
    /\ heap' = h
    /\ call' = c
    /\ UNCHANGED <<pc, stack, trace, result, native>>

\* Reader(f)
CallReader ==
    /\ CanBuild
    /\ \E f \in UserFuncs :
         LET h == Reader(heap, Def(f))
         IN Built(h, LibCall("Reader", <<>>, f, Omitted, h))

\* const(val)
CallConst ==
    /\ CanBuild
    /\ \E v \in ConstVals :
         LET h == Reader_const(heap, v)
         IN Built(h, LibCall("const", <<>>, "", v, h))

\* mktuple(*readers)
CallMktuple ==
    /\ CanBuild
    /\ \E rs \in SeqsUpTo(1..Len(heap), MaxLen) :
         LET h == Reader_mktuple(heap, rs)
         IN Built(h, LibCall("mktuple", rs, "", Omitted, h))

\* reader.map(f) and map(f, reader)
CallMap ==
    /\ CanBuild
    /\ \E r \in 1..Len(heap), f \in UserFuncs :
         LET h == Reader_map(heap, r, Def(f))
         IN Built(h, LibCall("map", <<r>>, f, Omitted, h))

\* r1.map_binary(operator, r2)
CallMapBinary ==
    /\ CanBuild
    /\ \E r1 \in 1..Len(heap), r2 \in 1..Len(heap), op \in Operators :
         LET h == Reader_map_binary(heap, r1, op, r2)
         IN Built(h, LibCall("map_binary", <<r1, r2>>, op, Omitted, h))

\* r1 + r2, r1 - r2, ..., r1 > r2
CallBinaryMethod ==
    /\ CanBuild
    /\ \E r1 \in 1..Len(heap), r2 \in 1..Len(heap), m \in BinaryMethods :
         LET h == Reader_binary_method(heap, m, r1, r2)
         IN Built(h, LibCall(m, <<r1, r2>>, MethodOperator(m), Omitted, h))

\* reduce(readers, operator[, initial])
CallReduce ==
    /\ CanBuild
    /\ \E rs \in SeqsUpTo(1..Len(heap), MaxLen), op \in ReduceOperators,
          arg \in InitialArgs :
         LET h == reduce(heap, rs, op, arg)
         IN Built(h, LibCall("reduce", rs, op, arg, h))

\* all(readers)
CallAll ==
    /\ CanBuild
    /\ \E rs \in SeqsUpTo(1..Len(heap), MaxLen) :
         LET h == all(heap, rs)
         IN Built(h, LibCall("all", rs, "and_", Omitted, h))

\* any(readers)
CallAny ==
    /\ CanBuild
    /\ \E rs \in SeqsUpTo(1..Len(heap), MaxLen) :
         LET h == any(heap, rs)
         IN Built(h, LibCall("any", rs, "or_", Omitted, h))

\* sum(readers[, start])
CallSum ==
    /\ CanBuild
    /\ \E rs \in SeqsUpTo(1..Len(heap), MaxLen), arg \in InitialArgs :
         LET h == sum(heap, rs, arg)
         IN Built(h, LibCall("sum", rs, "add", arg, h))

\* prod(readers[, start])
CallProd ==
    /\ CanBuild
    /\ \E rs \in SeqsUpTo(1..Len(heap), MaxLen), arg \in InitialArgs :
         LET h == prod(heap, rs, arg)
         IN Built(h, LibCall("prod", rs, "mul", arg, h))

\* min(readers[, default])
CallMin ==
    /\ CanBuild
    /\ \E rs \in SeqsUpTo(1..Len(heap), MaxLen), arg \in InitialArgs :
         LET h == min(heap, rs, arg)
         IN Built(h, LibCall("min", rs, "min", arg, h))

\* max(readers[, default])
CallMax ==
    /\ CanBuild
    /\ \E rs \in SeqsUpTo(1..Len(heap), MaxLen), arg \in InitialArgs :
         LET h == max(heap, rs, arg)
         IN Built(h, LibCall("max", rs, "max", arg, h))

(***************************************************************************)
(* Invocation                                                              *)
(***************************************************************************)
Top == stack[Len(stack)]
TopFunc == heap[Top.reader].func

\* reader(val) from the test: Reader.__call__ calls self.func(val)
Invoke ==
    /\ pc = "idle"
    /\ \E r \in Roots, e \in Envs :
         /\ pc' = "eval"
         /\ stack' = <<Frame(r, e)>>
         /\ trace' = <<CallEvent(r, e)>>
    /\ UNCHANGED <<heap, call, result, native>>

\* the running closure calls the next Reader with its own argument
CallReaderStep ==
    /\ pc = "eval"
    /\ NextCallee(TopFunc, Top) # 0
    /\ LET r == NextCallee(TopFunc, Top)
       IN /\ stack' = Append(stack, Frame(r, Top.val))
          /\ trace' = Append(trace, CallEvent(r, Top.val))
    /\ UNCHANGED <<heap, call, pc, result, native>>

\* the running closure returns: to the frame below, or to the test
ReturnStep ==
    /\ pc = "eval"
    /\ NextCallee(TopFunc, Top) = 0
    /\ LET out == Body(TopFunc, Top)
           n == Len(stack)
       IN /\ ~IsExc(out.val)
          /\ trace' = trace \o out.ops \o <<ReturnEvent(Top.reader, out.val)>>
          /\ IF n = 1
             THEN /\ stack' = <<>>
                  /\ result' = out.val
                  /\ pc' = "done"
             ELSE /\ stack' = [SubSeq(stack, 1, n - 1) EXCEPT
                                 ![n - 1].vals = Append(@, out.val)]
                  /\ UNCHANGED <<result, pc>>
    /\ UNCHANGED <<heap, call, native>>

\* the running closure raises: nothing in the library catches, so the
\* exception unwinds every frame and reaches the test
RaiseStep ==
    /\ pc = "eval"
    /\ NextCallee(TopFunc, Top) = 0
    /\ LET out == Body(TopFunc, Top)
       IN /\ IsExc(out.val)
          /\ trace' = trace \o out.ops \o <<RaiseEvent(Top.reader, out.val)>>
          /\ stack' = <<>>
          /\ result' = out.val
          /\ pc' = "done"
    /\ UNCHANGED <<heap, call, native>>

(***************************************************************************)
(* Native expressions, evaluated by the test                               *)
(***************************************************************************)
Evaluated(expr, a, b, val, calls) ==
    /\ pc' = "done"
    /\ native' = [expr |-> expr, a |-> a, b |-> b, val |-> val, calls |-> calls]
    /\ UNCHANGED <<heap, call, stack, trace, result>>

\* a == b
NativeEq ==
    /\ pc = "idle"
    /\ \E a \in Roots, b \in Roots :
        Evaluated("==", a, b, PyBool(Reader_eq(heap, a, b)), <<>>)

\* a != b
NativeNe ==
    /\ pc = "idle"
    /\ \E a \in Roots, b \in Roots :
        Evaluated("!=", a, b, PyBool(Reader_ne(heap, a, b)), <<>>)

\* bool(a)
NativeBool ==
    /\ pc = "idle"
    /\ \E a \in Roots :
        LET c == Reader_bool(heap, a)
        IN Evaluated("bool", a, a, PyBool(c.val), c.calls)

\* not a
NativeNot ==
    /\ pc = "idle"
    /\ \E a \in Roots :
        LET c == Reader_bool(heap, a)
        IN Evaluated("not", a, a, PyBool(~c.val), c.calls)

\* a and b: a if bool(a) is false, else b
NativeAnd ==
    /\ pc = "idle"
    /\ \E a \in Roots, b \in Roots :
        LET c == Reader_bool(heap, a)
        IN Evaluated("and", a, b, IF c.val THEN PyReader(b) ELSE PyReader(a),
                     c.calls)

\* a or b: a if bool(a) is true, else b
NativeOr ==
    /\ pc = "idle"
    /\ \E a \in Roots, b \in Roots :
        LET c == Reader_bool(heap, a)
        IN Evaluated("or", a, b, IF c.val THEN PyReader(a) ELSE PyReader(b),
                     c.calls)

(***************************************************************************)
(* The test harness                                                        *)
(***************************************************************************)
\* the test has compared the value it got and drops it
Discard ==
    /\ pc = "done"
    /\ pc' = "idle"
    /\ trace' = <<>>
    /\ result' = NoValue
    /\ native' = NoNative
    /\ UNCHANGED <<heap, call, stack>>

\* the test case ends: the Readers it built are dropped, the fixtures stay
Teardown ==
    /\ pc = "idle"
    /\ call # NoCall
    /\ heap' = Fixtures
    /\ call' = NoCall
    /\ UNCHANGED <<pc, stack, trace, result, native>>

Next ==
    \/ CallReader
    \/ CallConst
    \/ CallMktuple
    \/ CallMap
    \/ CallMapBinary
    \/ CallBinaryMethod
    \/ CallReduce
    \/ CallAll
    \/ CallAny
    \/ CallSum
    \/ CallProd
    \/ CallMin
    \/ CallMax
    \/ Invoke
    \/ CallReaderStep
    \/ ReturnStep
    \/ RaiseStep
    \/ NativeEq
    \/ NativeNe
    \/ NativeBool
    \/ NativeNot
    \/ NativeAnd
    \/ NativeOr
    \/ Discard
    \/ Teardown

Spec == Init /\ [][Next]_vars

(***************************************************************************)
(* Properties                                                              *)
(***************************************************************************)
\* an invocation made by the test has come back
Invoked == pc = "done" /\ trace # <<>>
\* the Reader the test invoked and the environment it passed
Target == trace[1].reader
Env == trace[1].val
\* the invocation that came back was of the Reader the library call returned
InvokedBuilt == Invoked /\ call.ret = PyReader(Target)

\* r(e) for a Reader that wraps a named function or a constant
Produces(r, e) ==
    LET func == heap[r].func
    IN IF func.kind = "const.<lambda>" THEN func.val ELSE CallDef(func.name, e)

\* the values the Readers handed to the library call produce at Env
Produced == [i \in 1..Len(call.readers) |-> Produces(call.readers[i], Env)]
AllProduce == \A i \in 1..Len(call.readers) : ~IsExc(Produced[i])

RECURSIVE FoldSeeded(_, _, _)
\* op(...op(op(seed, v1), v2)..., vn), an exception ending the fold
FoldSeeded(op, seed, vs) ==
    IF vs = <<>> THEN seed
    ELSE LET acc == FoldSeeded(op, seed, SubSeq(vs, 1, Len(vs) - 1))
         IN IF IsExc(acc) THEN acc ELSE Apply(op, acc, vs[Len(vs)])

\* op(...op(v1, v2)..., vn), and the no-initial-value error for no values
FoldUnseeded(op, vs) ==
    IF vs = <<>> THEN TypeErrorNoInitial ELSE FoldSeeded(op, vs[1], Tail(vs))

OpEvents == SelectSeq(trace, LAMBDA ev : ev.ev = "op")

\* the native operator each operator symbol stands for
SymbolOperator ==
    [m \in BinaryMethods |->
        CASE m = "__add__" -> "add"          \* +
          [] m = "__sub__" -> "sub"          \* -
          [] m = "__mul__" -> "mul"          \* *
          [] m = "__truediv__" -> "truediv"  \* /
          [] m = "__mod__" -> "mod"          \* %
          [] m = "__floordiv__" -> "floordiv" \* //
          [] m = "__pow__" -> "pow"          \* **
          [] m = "__matmul__" -> "matmul"    \* @
          [] m = "__and__" -> "and_"         \* &
          [] m = "__or__" -> "or_"           \* |
          [] m = "__xor__" -> "xor"          \* ^
          [] m = "__lt__" -> "lt"            \* <
          [] m = "__le__" -> "le"            \* <=
          [] m = "__ge__" -> "ge"            \* >=
          [] m = "__gt__" -> "gt"]           \* >

\* op(r1(e), r2(e)): the operands are evaluated left to right, and the
\* first exception is the outcome
OperatorOnValues(op, v1, v2) ==
    IF IsExc(v1) THEN v1 ELSE IF IsExc(v2) THEN v2 ELSE Apply(op, v1, v2)

\* C1: for Readers r1, r2, every overloaded binary operator op (and
\* map_binary with any op) and every environment e,
\* (r1 op r2)(e) == op(r1(e), r2(e)), r1's value on the left and r2's on
\* the right.
C1_BinaryOperator ==
    (InvokedBuilt /\ call.fn \in BinaryMethods \cup {"map_binary"}) =>
        LET op == IF call.fn = "map_binary" THEN call.operator
                  ELSE SymbolOperator[call.fn]
        IN result = OperatorOnValues(op, Produces(call.readers[1], Env),
                                     Produces(call.readers[2], Env))

\* (r_square - r_add_one)(3) == 5
C1_Witness ==
    /\ InvokedBuilt
    /\ call.fn = "__sub__"
    /\ call.readers = <<1, 2>>
    /\ Env = PyInt(3)
    /\ result = PyInt(5)

\* C2: mktuple(r1,...,rn)(e) is the tuple (r1(e), ..., rn(e)) of length n,
\* position i holding the value of the i-th Reader; the empty tuple for n = 0.
C2_Mktuple ==
    (InvokedBuilt /\ call.fn = "mktuple" /\ AllProduce) =>
        /\ result.t = "tuple"
        /\ Len(result.items) = Len(call.readers)
        /\ \A i \in 1..Len(call.readers) : result.items[i] = Produced[i]

\* mktuple(r_square, r_add_one)(3) == (9, 4)
C2_Witness ==
    /\ InvokedBuilt
    /\ call.fn = "mktuple"
    /\ call.readers = <<1, 2>>
    /\ result = PyTuple(<<PyInt(9), PyInt(4)>>)

\* C3: all(readers)(e) is true exactly when every produced value is truthy
\* and false when one is falsy, for booleans and integers alike; all([])(e)
\* is true and all([r])(e) == bool(r(e)).
C3_All ==
    (InvokedBuilt /\ call.fn = "all" /\ AllProduce) =>
        /\ ~IsExc(result)
        /\ Truthy(result) <=> \A i \in 1..Len(call.readers) : Truthy(Produced[i])

\* C4: reduce(readers, op, initial)(e) is op(...op(op(initial, v1), v2)..., vn)
\* when an initial value is given and op(...op(v1, v2)..., vn) when it is
\* omitted and n >= 1; with it omitted and one Reader the result is v1 and
\* op is never called.
C4_Reduce ==
    (InvokedBuilt /\ call.fn = "reduce" /\ AllProduce) =>
        /\ call.arg \notin {Omitted, PyNone} =>
              result = FoldSeeded(call.operator, call.arg, Produced)
        /\ (call.arg = Omitted /\ Len(call.readers) >= 1) =>
              result = FoldSeeded(call.operator, Produced[1], Tail(Produced))
        /\ (call.arg = Omitted /\ Len(call.readers) = 1) =>
              /\ result = Produced[1]
              /\ OpEvents = <<>>

\* reduce([r_square, r_add_one], sub, 3)(3) == (3 - 9) - 4
C4_Witness ==
    /\ InvokedBuilt
    /\ call.fn = "reduce"
    /\ call.operator = "sub"
    /\ call.readers = <<1, 2>>
    /\ call.arg = PyInt(3)
    /\ Env = PyInt(3)
    /\ result = PyInt(-10)

EmptyNoInitial ==
    /\ call.fn \in {"reduce", "sum", "prod", "min", "max"}
    /\ call.readers = <<>>
    /\ call.arg = Omitted

\* C5: sum([]), prod([]), min([]), max([]) and reduce([], op) with no
\* start/default/initial are built without error, and every invocation of
\* the Reader they return fails with the no-initial-value error.
C5_EmptyFailsWhenInvoked ==
    EmptyNoInitial =>
        /\ call.ret.t = "Reader"
        /\ call.ret.id \in 1..Len(heap)
        /\ InvokedBuilt => result = TypeErrorNoInitial

\* min([])(3) fails
C5_Witness ==
    /\ EmptyNoInitial
    /\ call.fn = "min"
    /\ InvokedBuilt
    /\ Env = PyInt(3)
    /\ result = TypeErrorNoInitial

\* C6: a == b is true exactly when a and b are the same Reader instance,
\* and a != b is its negation.
C6_EqualityIsIdentity ==
    /\ native.expr = "==" => (Truthy(native.val) <=> native.a = native.b)
    /\ native.expr = "!=" => (Truthy(native.val) <=> native.a # native.b)

\* C7: bool(r) is true and not r is false whatever r wraps, the coercion
\* invokes nothing, a and b is the Reader b itself and a or b is the Reader
\* a itself.
C7_AlwaysTruthy ==
    /\ native.expr = "bool" => native.val = PyTrue
    /\ native.expr = "not" => native.val = PyFalse
    /\ native.expr = "and" => native.val = PyReader(native.b)
    /\ native.expr = "or" => native.val = PyReader(native.a)
    /\ native.expr \in {"bool", "not", "and", "or"} =>
          native.calls = <<>> /\ trace = <<>>

\* r_id and r_not is r_not
C7_Witness ==
    /\ native.expr = "and"
    /\ native.a = 3
    /\ native.b = 4
    /\ native.val = PyReader(4)

\* the positions in the trace of the calls of the Readers that were handed
\* to the library call
ConstituentCalls ==
    SelectSeq(trace, LAMBDA ev :
        ev.ev = "call" /\ \E i \in 1..Len(call.readers) : ev.reader = call.readers[i])

NonShortCircuit ==
    {"all", "any", "reduce", "sum", "prod", "min", "max", "mktuple",
     "__and__", "__or__", "__xor__"}

\* C8: when no constituent fails, one invocation with environment e of a
\* Reader built by all, any, reduce, mktuple, &, | or ^ invokes the
\* constituents one after the other in the given order, each once per
\* place it has in the sequence and each with e, whatever the earlier ones
\* produced, and all of them before the operator is applied.
C8_NoShortCircuit ==
    (InvokedBuilt /\ call.fn \in NonShortCircuit /\ AllProduce) =>
        /\ ConstituentCalls =
              [i \in 1..Len(call.readers) |-> CallEvent(call.readers[i], Env)]
        /\ \A i \in 1..Len(trace), j \in 1..Len(trace) :
              (trace[i].ev = "call" /\ trace[j].ev = "op") => i < j

\* all([r_not, r_id])(True): r_not gives False and r_id is still invoked
C8_Witness ==
    /\ InvokedBuilt
    /\ call.fn = "all"
    /\ call.readers = <<4, 3>>
    /\ Env = PyTrue
    /\ \E i \in 1..Len(trace), j \in 1..Len(trace) :
          /\ i < j
          /\ trace[i] = ReturnEvent(4, PyFalse)
          /\ trace[j] = CallEvent(3, PyTrue)

\* C9: for a non-empty sequence of Readers and every default,
\* min(readers, default)(e) is the minimum and max(readers, default)(e) the
\* maximum of the produced values, so the result is one of them.
C9_MinMax ==
    (/\ InvokedBuilt
     /\ call.fn \in {"min", "max"}
     /\ call.readers # <<>>
     /\ \A i \in 1..Len(call.readers) : IsInt(Produced[i])) =>
        /\ \E i \in 1..Len(call.readers) : PyEq(result, Produced[i])
        /\ \A i \in 1..Len(call.readers) :
              IF call.fn = "min" THEN result.n <= Produced[i].n
              ELSE result.n >= Produced[i].n

====
